---- MODULE Spec2Model ----
(***************************************************************************)
(* tornado/template.py: the template compiler (parser, inheritance         *)
(* resolver, code generator) and the caching loader (BaseLoader /          *)
(* DictLoader) with its reentrant lock.                                    *)
(*                                                                         *)
(* A template source is a sequence of tokens, one per template directive   *)
(* or text run (the result of the "{{", "{%", "{#" scan of _parse).  A file *)
(* body is a sequence of node records; generated python is a sequence of   *)
(* line records that keep the indent, the statement and the               *)
(* "# name:line (via ...)" comment that _CodeWriter.write_line prints.     *)
(***************************************************************************)
EXTENDS Integers, Sequences, FiniteSets, TLC

(***************************************************************************)
(* Bounds of the model.                                                    *)
(***************************************************************************)
\* depth at which the interpreter stops a runaway recursion
RecursionLimit == 3
\* number of top-level calls (load, reset, Template(...)) the threads make
MaxOps == 2

\* longest template string, in directives, of the enumerated sources
MaxLen == 3

(***************************************************************************)
(* Values.                                                                 *)
(***************************************************************************)
\* python's None
PyNone == "<None>"

\* _UNSET = object()
UNSET == "<unset>"

\* _DEFAULT_AUTOESCAPE = "xhtml_escape"
DEFAULT_AUTOESCAPE == "xhtml_escape"

\* the default name of a Template built without a name
StringName == "<string>"

\* the characters python's \s matches, among those the sources use
Whitespace == {" ", "\t", "\n"}

Tok(op, arg) == [op |-> op, arg |-> arg, text |-> <<>>]

Txt(chars) == [op |-> "text", arg |-> "", text |-> chars]

(***************************************************************************)
(* filter_whitespace                                                       *)
(***************************************************************************)
\* end of the maximal run of characters of class cls that starts at i
RECURSIVE RunEnd(_, _, _)
RunEnd(text, i, cls) ==
    IF i < Len(text) /\ text[i + 1] \in cls THEN RunEnd(text, i + 1, cls) ELSE i

\* re.sub: every maximal run of cls characters holding a character of
\* needs becomes rep
RECURSIVE ReSub(_, _, _, _, _)
ReSub(text, i, cls, needs, rep) ==
    IF i > Len(text) THEN <<>>
    ELSE IF text[i] \in cls
         THEN LET j == RunEnd(text, i, cls)
                  run == SubSeq(text, i, j)
              IN  (IF \E n \in i..j : text[n] \in needs THEN <<rep>> ELSE run)
                  \o ReSub(text, j + 1, cls, needs, rep)
         ELSE <<text[i]>> \o ReSub(text, i + 1, cls, needs, rep)

WhitespaceModes == {"all", "single", "oneline"}

\* the result of filter_whitespace for a valid mode
filter_whitespace(mode, text) ==
    IF mode = "all" THEN text
    ELSE IF mode = "single"
         THEN ReSub(ReSub(text, 1, {"\t", " "}, {"\t", " "}, " "),
                    1, Whitespace, {"\n"}, "\n")
         ELSE ReSub(text, 1, Whitespace, Whitespace, " ")

(***************************************************************************)
(* ParseError                                                              *)
(***************************************************************************)
Error(type, message, filename, lineno) ==
    [type |-> type, message |-> message, filename |-> filename,
     lineno |-> lineno]

\* no exception
NoError == Error("", <<>>, "", 0)

\* ParseError.__init__(self, message, filename, lineno): a call with fewer
\* arguments raises TypeError before any ParseError exists
ParseError(args) ==
    IF Len(args) = 3
    THEN Error("ParseError", args[1], args[2], args[3])
    ELSE Error("TypeError", <<"__init__() takes exactly 4 arguments">>, "", 0)

(***************************************************************************)
(* AST nodes                                                               *)
(***************************************************************************)
Node(type, op, arg, line) ==
    [type |-> type, op |-> op, arg |-> arg, line |-> line, body |-> <<>>,
     raw |-> FALSE, text |-> <<>>, whitespace |-> "", tname |-> ""]

_Text(value, line, whitespace) ==
    [Node("_Text", "", "", line) EXCEPT !.text = value,
                                        !.whitespace = whitespace]

_Expression(expression, line, raw) ==
    [Node("_Expression", "", expression, line) EXCEPT !.raw = raw]

_Module(expression, line) ==
    [Node("_Expression", "_tt_modules.", expression, line) EXCEPT !.raw = TRUE]

_Statement(op, statement, line) == Node("_Statement", op, statement, line)

_ExtendsBlock(name) == Node("_ExtendsBlock", "extends", name, 0)

_IncludeBlock(name, readerName, line) ==
    [Node("_IncludeBlock", "include", name, line) EXCEPT !.tname = readerName]

_IntermediateControlBlock(op, arg, line) ==
    Node("_IntermediateControlBlock", op, arg, line)

_ApplyBlock(method, line, body) ==
    [Node("_ApplyBlock", "apply", method, line) EXCEPT !.body = body]

_NamedBlock(name, body, tname, line) ==
    [Node("_NamedBlock", "block", name, line) EXCEPT !.body = body,
                                                     !.tname = tname]

_ControlBlock(op, arg, line, body) ==
    [Node("_ControlBlock", op, arg, line) EXCEPT !.body = body]

(***************************************************************************)
(* _TemplateReader and _parse                                              *)
(***************************************************************************)
\* number of "\n" in a consumed slice (_TemplateReader.consume)
RECURSIVE CountNewlines(_)
CountNewlines(chars) ==
    IF chars = <<>> THEN 0
    ELSE (IF Head(chars) = "\n" THEN 1 ELSE 0) + CountNewlines(Tail(chars))

\* a table that lets every intermediate block attach to every block
IntermediateAnyBlock ==
    [op \in {"else", "elif", "except", "finally"} |->
        {"if", "for", "while", "try", "block", "apply"}]

\* the parents an intermediate block may attach to
intermediate_blocks ==
    [else |-> {"if", "for", "while", "try"}, elif |-> {"if"},
     except |-> {"try"}, finally |-> {"try"}]

\* parse state: reader position, reader.line, reader.whitespace and the
\* autoescape field of the template being parsed
PState(pos, line, whitespace, autoescape) ==
    [pos |-> pos, line |-> line, whitespace |-> whitespace,
     autoescape |-> autoescape]

POk(ps, chunks) == [st |-> "ok", ps |-> ps, chunks |-> chunks,
                    err |-> NoError]

PErr(ps, err) == [st |-> "error", ps |-> ps, chunks |-> <<>>, err |-> err]

\* reader.raise_parse_error(msg)
raise_parse_error(name, ps, msg) ==
    PErr(ps, ParseError(<<msg, name, ps.line>>))

\* a directive that leaves the template's setting alone
SetAutoescapeIgnored(ps, suffix) == ps

\* the template.autoescape assignment of the autoescape directive
SetAutoescape(ps, suffix) ==
    [ps EXCEPT !.autoescape = IF suffix = "None" THEN PyNone ELSE suffix]

\* the tag operators that produce no block body
SimpleOperators == {"extends", "include", "set", "import", "from", "comment",
                    "autoescape", "whitespace", "raw", "module"}

BlockOperators == {"apply", "block", "try", "if", "for", "while"}

\* a loop flag every block body inherits
LoopInherited(op, in_loop) ==
    IF op \in {"for", "while"} THEN op ELSE in_loop

\* the in_loop argument _parse gives the body of a block: the operator of
\* a loop, None for apply, the current flag for the other blocks
LoopOf(op, in_loop) ==
    IF op \in {"for", "while"} THEN op
    ELSE IF op = "apply" THEN PyNone
    ELSE in_loop

\* an end of input that closes every open block
EndOfFileLenient(name, ps0, ps, in_block, chunks) == POk(ps, chunks)

\* the EOF branch of _parse: ps0 is the reader when EOF is found, ps the
\* reader after the rest of the text is consumed
EndOfFile(name, ps0, ps, in_block, chunks) ==
    IF in_block # PyNone
    THEN raise_parse_error(name, ps0,
                           <<"Missing {% end %} block for", in_block>>)
    ELSE POk(ps, chunks)

\* a reader whose whitespace mode ends with the block it was set in
ReaderAfterRestored(ps, inner) ==
    [inner.ps EXCEPT !.whitespace = ps.whitespace]

\* the reader after the body of a block: the nested _parse call reads from
\* the same reader, so its position, line and settings stay
ReaderAfter(ps, inner) == inner.ps

\* _parse(reader, template, in_block, in_loop): toks is the reader's text,
\* ps.pos the index of the next token, body the chunks appended so far
RECURSIVE _parse(_, _, _, _, _, _)
_parse(name, toks, ps0, in_block, in_loop, body) ==
    IF ps0.pos > Len(toks)
    THEN \* EOF with nothing left
         EndOfFile(name, ps0, ps0, in_block,
                   Append(body, _Text(<<>>, ps0.line, ps0.whitespace)))
    ELSE
    LET tok == toks[ps0.pos]
        op == tok.op
        suffix == tok.arg
        \* the reader after the token is consumed
        ps == [ps0 EXCEPT !.pos = ps0.pos + 1,
                          !.line = ps0.line + CountNewlines(tok.text)]
        line == ps.line
        Continue(chunks) == _parse(name, toks, ps, in_block, in_loop, chunks)
    IN
    IF op = "text"
    THEN IF ps0.pos = Len(toks)
         THEN \* EOF: the rest of the text is the last chunk
              EndOfFile(name, ps0, ps, in_block,
                        Append(body, _Text(tok.text, ps.line, ps.whitespace)))
         ELSE Continue(Append(body, _Text(tok.text, ps.line, ps.whitespace)))
    ELSE IF op = "escaped"
    THEN \* "{{!" or "{%!"
         Continue(Append(body, _Text(<<suffix>>, line, ps.whitespace)))
    ELSE IF op = "unterminated"
    THEN raise_parse_error(name, ps, <<"Missing end">>)
    ELSE IF op = "{#"
    THEN Continue(body)
    ELSE IF op = "{{"
    THEN IF suffix = ""
         THEN raise_parse_error(name, ps, <<"Empty expression">>)
         ELSE Continue(Append(body, _Expression(suffix, line, FALSE)))
    ELSE IF op = ""
    THEN raise_parse_error(name, ps, <<"Empty block tag ({% %})">>)
    ELSE IF op \in DOMAIN intermediate_blocks
    THEN IF in_block = PyNone
         THEN raise_parse_error(name, ps, <<"outside block", op>>)
         ELSE IF in_block \notin intermediate_blocks[op]
         THEN raise_parse_error(name, ps, <<"block cannot be attached to", op, in_block>>)
         ELSE Continue(Append(body, _IntermediateControlBlock(op, suffix, line)))
    ELSE IF op = "end"
    THEN IF in_block = PyNone
         THEN raise_parse_error(name, ps, <<"Extra {% end %} block">>)
         ELSE POk(ps, body)
    ELSE IF op \in SimpleOperators
    THEN CASE op = "comment" -> Continue(body)
           [] op = "extends" ->
                IF suffix = ""
                THEN raise_parse_error(name, ps, <<"extends missing file path">>)
                ELSE Continue(Append(body, _ExtendsBlock(suffix)))
           [] op \in {"import", "from"} ->
                IF suffix = ""
                THEN raise_parse_error(name, ps, <<"import missing statement">>)
                ELSE Continue(Append(body, _Statement(op, suffix, line)))
           [] op = "include" ->
                IF suffix = ""
                THEN raise_parse_error(name, ps, <<"include missing file path">>)
                ELSE Continue(Append(body, _IncludeBlock(suffix, name, line)))
           [] op = "set" ->
                IF suffix = ""
                THEN raise_parse_error(name, ps, <<"set missing statement">>)
                ELSE Continue(Append(body, _Statement("", suffix, line)))
           [] op = "autoescape" ->
                _parse(name, toks, SetAutoescape(ps, suffix), in_block,
                       in_loop, body)
           [] op = "whitespace" ->
                IF suffix \notin WhitespaceModes
                THEN PErr(ps, Error("Exception", <<"invalid whitespace mode">>,
                                    "", 0))
                ELSE _parse(name, toks, [ps EXCEPT !.whitespace = suffix],
                            in_block, in_loop, body)
           [] op = "raw" -> Continue(Append(body, _Expression(suffix, line, TRUE)))
           [] op = "module" -> Continue(Append(body, _Module(suffix, line)))
    ELSE IF op \in BlockOperators
    THEN LET inner == _parse(name, toks, ps, op, LoopOf(op, in_loop), <<>>)
         IN  IF inner.st # "ok" THEN inner
             ELSE IF op = "apply"
             THEN IF suffix = ""
                  THEN raise_parse_error(name, ReaderAfter(ps, inner),
                                         <<"apply missing method name">>)
                  ELSE _parse(name, toks, ReaderAfter(ps, inner), in_block,
                              in_loop,
                              Append(body, _ApplyBlock(suffix, line,
                                                       inner.chunks)))
             ELSE IF op = "block"
             THEN IF suffix = ""
                  THEN raise_parse_error(name, ReaderAfter(ps, inner),
                                         <<"block missing name">>)
                  ELSE _parse(name, toks, ReaderAfter(ps, inner), in_block,
                              in_loop,
                              Append(body, _NamedBlock(suffix, inner.chunks,
                                                       name, line)))
             ELSE _parse(name, toks, ReaderAfter(ps, inner), in_block,
                         in_loop,
                         Append(body, _ControlBlock(op, suffix, line,
                                                    inner.chunks)))
    ELSE IF op \in {"break", "continue"}
    THEN IF in_loop = PyNone
         THEN raise_parse_error(name, ps, <<"outside loop block", op>>)
         ELSE Continue(Append(body, _Statement(op, suffix, line)))
    ELSE raise_parse_error(name, ps, <<"unknown operator">>)

(***************************************************************************)
(* Template objects                                                        *)
(***************************************************************************)
\* a reference to a Template object: its identity and the fields the code
\* generator reads through the reference
TemplateRef(id, name, autoescape) ==
    [id |-> id, name |-> name, autoescape |-> autoescape]

\* _File(template, body)
_File(template, chunks) == [template |-> template, chunks |-> chunks]

\* a constructed Template
TemplateObject(id, name, autoescape, chunks, code, loader) ==
    [id |-> id, name |-> name, autoescape |-> autoescape, chunks |-> chunks,
     code |-> code, loader |-> loader]

NoTemplate == TemplateObject(0, "", "", <<>>, <<>>, FALSE)

RefOf(template) ==
    TemplateRef(template.id, template.name, template.autoescape)

(***************************************************************************)
(* _CodeWriter                                                             *)
(***************************************************************************)
\* _CodeWriter.__init__(file, named_blocks, loader, current_template)
_CodeWriter(current_template) ==
    [lines |-> <<>>, current_template |-> current_template,
     apply_counter |-> 0, include_stack |-> <<>>, indent |-> 0]

NoWriter == _CodeWriter(TemplateRef(0, "", ""))

\* _CodeWriter.write_line(line, line_number, indent): the printed line keeps
\* its indent, its statement (a format and its argument) and the comment
\* "# <current_template.name>:<line_number> (via <include_stack>)"
write_line_at(w, code, op, arg, text, line_number, indent) ==
    [w EXCEPT !.lines = Append(@,
        [indent |-> indent, code |-> code, op |-> op, arg |-> arg,
         text |-> text,
         tmpl |-> w.current_template.name, line |-> line_number,
         via |-> [i \in 1..Len(w.include_stack) |->
                    [name |-> w.include_stack[i].template.name,
                     line |-> w.include_stack[i].line]]])]

\* write_line with indent=None
write_line(w, code, op, arg, line_number) ==
    write_line_at(w, code, op, arg, <<>>, line_number, w.indent)

\* Indenter.__enter__
IndentEnter(w) == [w EXCEPT !.indent = @ + 1]

\* Indenter.__exit__ (its assert holds whenever __enter__ ran before)
IndentExit(w) == [w EXCEPT !.indent = @ - 1]

\* an include that pushes the stack entry and keeps the current template
IncludeEnterSameTemplate(w, template, line) ==
    [w EXCEPT !.include_stack = Append(@, [template |-> w.current_template,
                                           line |-> line])]

\* _CodeWriter.include(template, line), up to __enter__
IncludeEnter(w, template, line) ==
    [w EXCEPT !.include_stack = Append(@, [template |-> w.current_template,
                                           line |-> line]),
              !.current_template = template]

\* an exit that pops the stack entry and does not restore the template
IncludeExitNoRestore(w) ==
    [w EXCEPT !.include_stack = SubSeq(@, 1, Len(@) - 1)]

\* IncludeTemplate.__exit__
IncludeExit(w) ==
    [w EXCEPT !.current_template = w.include_stack[Len(w.include_stack)].template,
              !.include_stack = SubSeq(@, 1, Len(@) - 1)]

(***************************************************************************)
(* The state threaded through the construction of one Template: st is      *)
(* "ok", "error" (err is the exception) or "need" (the construction has    *)
(* reached a loader.load call whose result is not known yet: need is the   *)
(* call); k counts the loader.load calls made so far, anc, nb and w are    *)
(* the ancestors list, the named_blocks dict and the writer.               *)
(***************************************************************************)
NoCall == [name |-> "", parent_path |-> ""]

MStart == [st |-> "ok", k |-> 0, anc |-> <<>>, nb |-> <<>>, w |-> NoWriter,
           err |-> NoError, need |-> NoCall, val |-> NoTemplate]

MRaise(m, err) == [m EXCEPT !.st = "error", !.err = err]

\* named_blocks[name] = block
SetItem(dict, name, value) ==
    [n \in DOMAIN dict \cup {name} |-> IF n = name THEN value ELSE dict[n]]

\* loader.load(name, parent_path) as seen by the construction that calls
\* it: the calls whose results the frame has already received are in memo
\* (in call order); the next one suspends the construction
LoaderLoad(env, m, name, parent_path) ==
    IF ~env.loader
    THEN MRaise(m, Error("AttributeError",
                         <<"'NoneType' object has no attribute 'load'">>,
                         "", 0))
    ELSE IF m.k < Len(env.memo)
    THEN [m EXCEPT !.k = @ + 1, !.val = env.memo[m.k + 1]]
    ELSE [m EXCEPT !.st = "need",
                   !.need = [name |-> name, parent_path |-> parent_path]]

(***************************************************************************)
(* Template._get_ancestors                                                 *)
(***************************************************************************)
RECURSIVE _get_ancestors(_, _, _, _)
_get_ancestors(file, i, env, m) ==
    \* i = 0: ancestors = [self.file]; i >= 1: the loop over the chunks
    IF m.st # "ok" THEN m
    ELSE IF i = 0
    THEN _get_ancestors(file, 1, env, [m EXCEPT !.anc = Append(@, file)])
    ELSE IF i > Len(file.chunks) THEN m
    ELSE IF file.chunks[i].type # "_ExtendsBlock"
    THEN _get_ancestors(file, i + 1, env, m)
    ELSE IF ~env.loader
    THEN MRaise(m, ParseError(
             <<<<"{% extends %} block found, but no template loader">>>>))
    ELSE LET l == LoaderLoad(env, m, file.chunks[i].arg, file.template.name)
         IN  IF l.st # "ok" THEN l
             ELSE _get_ancestors(file, i + 1, env,
                      _get_ancestors(_File(RefOf(l.val), l.val.chunks), 0,
                                     env, l))

(***************************************************************************)
(* find_named_blocks                                                       *)
(***************************************************************************)
\* a dict in which the first block of a name stays
RegisterFirstBlock(named_blocks, node, owner) ==
    IF node.arg \in DOMAIN named_blocks THEN named_blocks
    ELSE SetItem(named_blocks, node.arg,
                 [body |-> node.body, template |-> owner])

\* _NamedBlock.find_named_blocks: named_blocks[self.name] = self
RegisterBlock(named_blocks, node, owner) ==
    SetItem(named_blocks, node.arg, [body |-> node.body, template |-> owner])

\* _Node.find_named_blocks over a chunk list; owner is the template whose
\* _parse made the nodes (the template field _parse gives a _NamedBlock)
RECURSIVE find_named_blocks(_, _, _, _, _)
find_named_blocks(chunks, i, owner, env, m) ==
    IF m.st # "ok" \/ i > Len(chunks) THEN m
    ELSE
    LET node == chunks[i]
        after ==
          IF node.type = "_NamedBlock"
          THEN find_named_blocks(node.body, 1, owner, env,
                   [m EXCEPT !.nb = RegisterBlock(@, node, owner)])
          ELSE IF node.type = "_IncludeBlock"
          THEN LET l == LoaderLoad(env, m, node.arg, node.tname)
               IN  IF l.st # "ok" THEN l
                   ELSE find_named_blocks(l.val.chunks, 1, RefOf(l.val),
                                          env, l)
          ELSE IF node.type \in {"_ControlBlock", "_ApplyBlock"}
          THEN find_named_blocks(node.body, 1, owner, env, m)
          ELSE m
    IN  find_named_blocks(chunks, i + 1, owner, env, after)

\* the loop of _generate_python over the reversed ancestors
RECURSIVE FindAllNamedBlocks(_, _, _, _)
FindAllNamedBlocks(ancestors, i, env, m) ==
    IF m.st # "ok" \/ i > Len(ancestors) THEN m
    ELSE FindAllNamedBlocks(ancestors, i + 1, env,
             find_named_blocks(ancestors[i].chunks, 1, ancestors[i].template,
                               env, m))

(***************************************************************************)
(* generate                                                                *)
(***************************************************************************)
\* apply f to the writer of a construction that has not failed
OnWriter(m, w) == IF m.st = "ok" THEN [m EXCEPT !.w = w] ELSE m

\* "<pre>" in value: the sources spell the substring as one character
HasPre(value) == \E i \in 1..Len(value) : value[i] = "<pre>"

\* _Text.generate
TextGenerate(node, w) ==
    LET value == IF ~HasPre(node.text)
                 THEN filter_whitespace(node.whitespace, node.text)
                 ELSE node.text
    IN  IF value # <<>>
        THEN write_line_at(w, "_tt_append(%r)", "", "", value, node.line,
                           w.indent)
        ELSE w

\* the autoescape function _Expression.generate applies
CurrentAutoescape(w) == w.current_template.autoescape

\* _Expression.generate
ExpressionGenerate(node, w) ==
    LET w1 == write_line(w, "_tt_tmp = %s", node.op, node.arg, node.line)
        w2 == write_line(w1, "if isinstance(_tt_tmp, _tt_string_types): _tt_tmp = _tt_utf8(_tt_tmp)",
                         "", "", node.line)
        w3 == write_line(w2, "else: _tt_tmp = _tt_utf8(str(_tt_tmp))", "", "",
                         node.line)
        w4 == IF ~node.raw /\ CurrentAutoescape(w3) # PyNone
              THEN write_line(w3, "_tt_tmp = _tt_utf8(%s(_tt_tmp))", "",
                              CurrentAutoescape(w3), node.line)
              ELSE w3
    IN  write_line(w4, "_tt_append(_tt_tmp)", "", "", node.line)

\* an intermediate block whose header is written at the indent of the body
IntermediateGenerateInBody(node, w) ==
    write_line_at(write_line(w, "pass", "", "", node.line),
                  "%s:", node.op, node.arg, <<>>, node.line, w.indent)

\* _IntermediateControlBlock.generate
IntermediateGenerate(node, w) ==
    write_line_at(write_line(w, "pass", "", "", node.line),
                  "%s:", node.op, node.arg, <<>>, node.line, w.indent - 1)

\* the generate methods of the nodes of a chunk list, from chunk i on; d is
\* the depth of the python stack
RECURSIVE generate(_, _, _, _, _)
generate(chunks, i, env, m, d) ==
    IF m.st # "ok" \/ i > Len(chunks) THEN m
    ELSE IF d > RecursionLimit
    THEN MRaise(m, Error("RuntimeError",
                         <<"maximum recursion depth exceeded">>, "", 0))
    ELSE
    LET node == chunks[i]
        w == m.w
        after ==
          CASE node.type = "_Text" -> OnWriter(m, TextGenerate(node, w))
            [] node.type = "_Expression" ->
                 OnWriter(m, ExpressionGenerate(node, w))
            [] node.type = "_Statement" ->
                 OnWriter(m, write_line(w, "%s", node.op, node.arg, node.line))
            [] node.type = "_IntermediateControlBlock" ->
                 OnWriter(m, IntermediateGenerate(node, w))
            [] node.type = "_ControlBlock" ->
                 LET h == write_line(w, "%s:", node.op, node.arg, node.line)
                     b == generate(node.body, 1, env,
                                   [m EXCEPT !.w = IndentEnter(h)], d + 1)
                 IN  OnWriter(b, IndentExit(
                         write_line(b.w, "pass", "", "", node.line)))
            [] node.type = "_ApplyBlock" ->
                 LET h == write_line(w, "def _tt_apply%d():",
                                     ToString(w.apply_counter), "", node.line)
                     h1 == IndentEnter([h EXCEPT !.apply_counter = @ + 1])
                     h2 == write_line(h1, "_tt_buffer = []", "", "", node.line)
                     h3 == write_line(h2, "_tt_append = _tt_buffer.append",
                                      "", "", node.line)
                     b == generate(node.body, 1, env, [m EXCEPT !.w = h3],
                                   d + 1)
                     r == IndentExit(write_line(b.w,
                              "return _tt_utf8('').join(_tt_buffer)", "", "",
                              node.line))
                 IN  OnWriter(b, write_line(r,
                         "_tt_append(_tt_utf8(%s(_tt_apply%d())))",
                         ToString(w.apply_counter), node.arg, node.line))
            [] node.type = "_NamedBlock" ->
                 IF node.arg \notin DOMAIN m.nb
                 THEN MRaise(m, Error("KeyError", <<node.arg>>, "", 0))
                 ELSE LET block == m.nb[node.arg]
                          b == generate(block.body, 1, env,
                                        [m EXCEPT !.w = IncludeEnter(w,
                                             block.template, node.line)],
                                        d + 1)
                      IN  OnWriter(b, IncludeExit(b.w))
            [] node.type = "_IncludeBlock" ->
                 LET l == LoaderLoad(env, m, node.arg, node.tname)
                 IN  IF l.st # "ok" THEN l
                     ELSE LET b == generate(l.val.chunks, 1, env,
                                       [l EXCEPT !.w = IncludeEnter(w,
                                            RefOf(l.val), node.line)],
                                       d + 1)
                          IN  OnWriter(b, IncludeExit(b.w))
            [] OTHER ->
                 \* _ExtendsBlock inherits _Node.generate
                 MRaise(m, Error("NotImplementedError", <<>>, "", 0))
    IN  generate(chunks, i + 1, env, after, d)

\* _File.generate
FileGenerate(file, env, m) ==
    LET w1 == IndentEnter(write_line(m.w, "def _tt_execute():", "", "", 0))
        w2 == write_line(w1, "_tt_buffer = []", "", "", 0)
        w3 == write_line(w2, "_tt_append = _tt_buffer.append", "", "", 0)
        b == generate(file.chunks, 1, env, [m EXCEPT !.w = w3], 1)
    IN  OnWriter(b, IndentExit(write_line(b.w,
            "return _tt_utf8('').join(_tt_buffer)", "", "", 0)))

\* list.reverse
Reverse(seq) == [i \in 1..Len(seq) |-> seq[Len(seq) + 1 - i]]

\* the order in which _generate_python walks the ancestors
AncestorOrder(ancestors) == Reverse(ancestors)

\* Template._generate_python(loader) of the template whose file is given
_generate_python(file, env) ==
    LET \* ancestors[0].generate(writer), n the outcome of the loop over
        \* the ancestors
        WithBlocks(ancestors, n) ==
            IF n.st # "ok" THEN n
            ELSE FileGenerate(ancestors[1], env,
                     [n EXCEPT !.w = _CodeWriter(ancestors[1].template)])
        \* ancestors.reverse(), a the outcome of _get_ancestors
        WithAncestors(a, ancestors) ==
            IF a.st # "ok" THEN a
            ELSE WithBlocks(ancestors,
                            FindAllNamedBlocks(ancestors, 1, env, a))
        Reversed(a) == WithAncestors(a, AncestorOrder(a.anc))
    IN  Reversed(_get_ancestors(file, 0, env, MStart))

\* the expressions and statements python's compile() rejects
InvalidPython == {"1 +"}

\* compile(self.code, ...): python rejects an invalid expression or
\* statement, an elif, else, except or finally clause that does not follow
\* a clause it may follow, a try without except or finally, and a break or
\* continue that no loop of the same function encloses
CompileOk(code) ==
    LET Header(i, ops) == code[i].code = "%s:" /\ code[i].op \in ops
        Before(i) == {j \in 1..(i - 1) : code[j].indent <= code[i].indent}
        After(i) == {j \in (i + 1)..Len(code) :
                       code[j].indent <= code[i].indent}
        Prev(i) == CHOOSE j \in Before(i) : \A k \in Before(i) : k <= j
        Follow(i) == CHOOSE j \in After(i) : \A k \in After(i) : j <= k
        Encloses(j, i) ==
            j < i /\ \A k \in (j + 1)..i : code[k].indent > code[j].indent
        clause == [elif |-> {"if", "elif"},
                   else |-> {"if", "elif", "for", "while", "except"},
                   except |-> {"try", "except"},
                   finally |-> {"try", "except", "else"}]
    IN  \A i \in 1..Len(code) :
          /\ code[i].code \in {"_tt_tmp = %s", "%s", "%s:"} =>
                code[i].arg \notin InvalidPython
          /\ Header(i, DOMAIN clause) =>
                /\ Before(i) # {}
                /\ code[Prev(i)].indent = code[i].indent
                /\ Header(Prev(i), clause[code[i].op])
          /\ Header(i, {"try"}) =>
                /\ After(i) # {}
                /\ code[Follow(i)].indent = code[i].indent
                /\ Header(Follow(i), {"except", "finally"})
          /\ code[i].code = "%s" /\ code[i].op \in {"break", "continue"} =>
                \E j \in 1..(i - 1) :
                    /\ Header(j, {"for", "while"})
                    /\ Encloses(j, i)
                    /\ ~\E k \in (j + 1)..(i - 1) :
                           /\ code[k].code = "def _tt_apply%d():"
                           /\ Encloses(k, i)

\* names ending in ".html" or ".js"
HtmlNames == {"base.html", "page.html"}

\* the whitespace mode Template.__init__ settles on (compress_whitespace is
\* left unset)
InitWhitespace(name, whitespace, env) ==
    IF whitespace # PyNone THEN whitespace
    ELSE IF env.loader /\ env.whitespace # PyNone THEN env.whitespace
    ELSE IF name \in HtmlNames THEN "single" ELSE "all"

\* the loader's default taken before the constructor argument
InitAutoescapeLoaderFirst(autoescape, env) ==
    IF env.loader THEN env.autoescape
    ELSE IF autoescape # UNSET THEN autoescape
    ELSE DEFAULT_AUTOESCAPE

\* the autoescape setting Template.__init__ starts the parse with
InitAutoescape(autoescape, env) ==
    IF autoescape # UNSET THEN autoescape
    ELSE IF env.loader THEN env.autoescape
    ELSE DEFAULT_AUTOESCAPE

\* Template.__init__(template_string, name, loader, autoescape=...,
\* whitespace=...): the object has identity id; the result is the
\* construction state, val the constructed Template when st = "ok"
TemplateInit(id, template_string, name, autoescape, whitespace, env) ==
    LET ws == InitWhitespace(name, whitespace, env)
        \* self.compiled = compile(self.code, ...), g the outcome of
        \* _generate_python
        Compile(p, g) ==
            IF g.st # "ok" THEN g
            ELSE IF ~CompileOk(g.w.lines)
            THEN MRaise(g, Error("SyntaxError", <<"invalid syntax">>, "", 0))
            ELSE [g EXCEPT !.val = TemplateObject(id, name, p.ps.autoescape,
                                                  p.chunks, g.w.lines,
                                                  env.loader)]
        \* self.code = self._generate_python(loader), p the outcome of
        \* _parse
        Generate(p) ==
            IF p.st # "ok" THEN MRaise(MStart, p.err)
            ELSE Compile(p, _generate_python(
                     _File(TemplateRef(id, name, p.ps.autoescape), p.chunks),
                     env))
    IN  IF ws \notin WhitespaceModes
        THEN MRaise(MStart, Error("Exception", <<"invalid whitespace mode">>,
                                  "", 0))
        ELSE Generate(_parse(name, template_string,
                             PState(1, 1, ws, InitAutoescape(autoescape, env)),
                             PyNone, PyNone, <<>>))

(***************************************************************************)
(* The program: one DictLoader shared by the threads, which call           *)
(* loader.load(name), loader.reset() and Template(...).                    *)
(***************************************************************************)
Threads == {1, 2}

NoThread == 0

Names == {"base.html", "page.html", "inc.txt"}

VARIABLES
    dict,        \* DictLoader.dict: name -> template source
    loader,      \* the loader's autoescape and whitespace attributes
    ctor,        \* the arguments of the Template(...) calls of the program
    templates,   \* BaseLoader.templates
    lockOwner,   \* the thread that holds BaseLoader.lock, or NoThread
    lockCount,   \* how many times the owner has acquired the RLock
    stack,       \* per thread: the load / Template(...) calls in progress
    result,      \* per thread: the outcome of its last finished call
    opsLeft,     \* number of top-level calls still to come
    nextId,      \* identity of the next Template object
    runs,        \* per name: _create_template calls since the last reset
    succ,        \* per name: _create_template calls that returned, same span
    returned     \* per name: identities load() returned since the last reset

vars == <<dict, loader, ctor, templates, lockOwner, lockCount, stack, result,
          opsLeft, nextId, runs, succ, returned>>

\* DictLoader.resolve_path(name, parent_path).  Every name of the model is a
\* relative path without directory part, for which both branches
\* (posixpath.normpath(posixpath.join("", name)) and the unchanged name)
\* yield name
resolve_path(name, parent_path) ==
    IF parent_path # PyNone /\ parent_path # StringName
    THEN name
    ELSE name

\* a lock that never makes a thread wait
CanAcquireUnlocked(t) == TRUE

\* an RLock can be acquired by its owner or when nobody holds it
CanAcquire(t) == lockOwner = NoThread \/ lockOwner = t

Frame(kind, name, phase, id) ==
    [kind |-> kind, name |-> name, phase |-> phase, id |-> id,
     memo |-> <<>>, val |-> NoTemplate, err |-> NoError,
     snap |-> <<>>]

Top(t) == stack[t][Len(stack[t])]

SetTop(t, frame) == [stack EXCEPT ![t][Len(stack[t])] = frame]

Pop(t) == SubSeq(stack[t], 1, Len(stack[t]) - 1)

Env(given, memo) ==
    [loader |-> given, autoescape |-> loader.autoescape,
     whitespace |-> loader.whitespace, memo |-> memo]

\* DictLoader._create_template(name), resp. the Template(...) call of the
\* program, as far as the loads received so far let it run
Construction(frame) ==
    LET load == frame.kind = "load"
    IN  IF load /\ frame.name \notin DOMAIN dict
        THEN MRaise(MStart, Error("KeyError", <<frame.name>>, "", 0))
        ELSE TemplateInit(frame.id,
                          IF load THEN dict[frame.name] ELSE ctor.src,
                          frame.name,
                          IF load THEN UNSET ELSE ctor.autoescape,
                          PyNone,
                          Env(load \/ ctor.loader, frame.memo))

\* the cache entry is written whether or not _create_template returned
InstallAlways(cache, name, m) == SetItem(cache, name, m.val)

\* self.templates[name] = self._create_template(name): the assignment
\* happens only when _create_template returns
Install(cache, name, m) ==
    IF m.st = "ok" THEN SetItem(cache, name, m.val) ELSE cache

Result(op, name, st, val, err, before, after) ==
    [op |-> op, name |-> name, st |-> st, val |-> val, err |-> err,
     before |-> before, after |-> after]

NoResult == Result("none", "", "", NoTemplate, NoError, <<>>, <<>>)

Zero == [n \in Names |-> 0]

(***************************************************************************)
(* The inputs: template sources, loader settings, constructor arguments.   *)
(* Every expression text occurs in one source only, so that a generated    *)
(* line tells which template its expression was written in.                *)
(***************************************************************************)
E(expression) == Tok("{{", expression)

\* sources of base.html
BaseOk == <<Txt(<<"A">>), E("b1"), Tok("block", "t"), E("b2"), Tok("end", ""),
            Txt(<<"B">>)>>

BaseIncludes == <<E("b1"), Tok("block", "t"), E("b2"), Tok("end", ""),
                  Tok("include", "inc.txt")>>

BaseExtendsPage == <<Tok("extends", "page.html"), Tok("block", "t"), E("b2"),
                     Tok("end", "")>>

BaseBogus == <<E("b1"), Tok("bogus", "")>>

\* sources of page.html
PageBlock == <<Tok("extends", "base.html"), Txt(<<"C">>), E("p1"),
               Tok("block", "t"), E("p2"), Tok("end", "")>>

PageExtends == <<Tok("extends", "base.html"), E("p1")>>

PageTwoExtends == <<Tok("extends", "base.html"), Tok("extends", "inc.txt"),
                    Tok("block", "t"), E("p2"), Tok("end", "")>>

PageInvalid == <<E("1 +")>>

PageExtendsInvalid == <<Tok("extends", "base.html"), Tok("block", "t"),
                        E("1 +"), Tok("end", "")>>

PageSelf == <<Tok("extends", "page.html")>>

PageIncludes ==
    { <<E("p1"), Tok("autoescape", "None"), Tok("include", "inc.txt"),
        E("p2")>>,
      <<E("p1"), Tok("include", "inc.txt"), E("p2")>> }

\* sources of inc.txt
IncPlain == <<E("i1")>>

IncDirective == <<Tok("autoescape", "None"), E("i1")>>

IncBlock == <<Tok("block", "t"), E("i1"), Tok("end", "")>>

IncExtendsPage == <<Tok("extends", "page.html"), Tok("block", "t"), E("i1"),
                    Tok("end", "")>>

\* a DictLoader dict; a name whose source is Absent is not in the dict
Absent == <<Tok("absent", "")>>

MakeDict(b, p, i) ==
    [n \in (IF i = Absent THEN Names \ {"inc.txt"} ELSE Names) |->
        IF n = "base.html" THEN b ELSE IF n = "page.html" THEN p ELSE i]

\* the dicts the loader is built from: inheritance (with failing, cyclic
\* and missing templates), and inclusion
InheritDicts ==
    { MakeDict(BaseOk, p, IncBlock) :
        p \in {PageBlock, PageExtends, PageTwoExtends, PageInvalid,
               PageExtendsInvalid, PageSelf} }
    \cup { MakeDict(b, PageBlock, IncBlock) :
             b \in {BaseIncludes, BaseExtendsPage, BaseBogus} }
    \cup { MakeDict(BaseIncludes, PageExtends, IncBlock) }
    \cup { MakeDict(BaseOk, PageBlock, i) : i \in {IncExtendsPage, Absent} }

IncludeDicts ==
    { MakeDict(BaseOk, p, i) :
        p \in PageIncludes,
        i \in {IncPlain, IncDirective, IncBlock, IncExtendsPage, Absent} }

\* the template_string arguments of Template(...)
DirectiveSources ==
    { <<E("s1")>>,
      <<E("s1"), Tok("autoescape", "None"), E("s2")>>,
      <<Tok("autoescape", "url_escape"), E("s1")>> }

LoadingSources ==
    { <<Tok("extends", "base.html"), E("s1")>>,
      <<E("s1"), Tok("include", "inc.txt"), E("s2")>> }

DefaultDict ==
    MakeDict(<<E("b1"), Tok("block", "t"), E("b2"), Tok("end", "")>>,
             PageExtends, IncDirective)

(***************************************************************************)
(* Templates for the code generator: whitespace directives, nested         *)
(* extends markers, control blocks and loops                               *)
(***************************************************************************)
\* a text chunk: a letter that names it, then a run of whitespace that
\* each whitespace mode rewrites differently
W(letter) == Txt(<<letter, " ", " ", "\n", " ">>)

\* whitespace directives in a block, after its end, around an include, in
\* the included template, and in a block that replaces a parent's
WhitespaceDicts ==
    LET base == <<W("A"), Tok("block", "t"), Tok("whitespace", "oneline"),
                  W("B"), Tok("end", ""), W("C")>>
        page == <<W("a"), Tok("if", "c"), W("b"),
                  Tok("whitespace", "oneline"), W("c"), Tok("end", ""),
                  W("d"), Tok("include", "inc.txt"), W("e"),
                  Tok("whitespace", "all"), W("f")>>
        child == <<Tok("extends", "base.html"), Tok("block", "t"), W("p"),
                   Tok("whitespace", "all"), W("q"), Tok("end", "")>>
        inc == <<W("g"), Tok("whitespace", "single"), W("h")>>
    IN  {MakeDict(base, page, inc), MakeDict(base, child, inc)}

\* an extends marker inside a control block, an apply block and a named
\* block, and at the top level of an included template
NestedExtendsDicts ==
    LET Nested(op, arg) == <<E("p1"), Tok(op, arg),
                             Tok("extends", "base.html"), Tok("end", ""),
                             E("p2")>>
        including == <<E("p1"), Tok("include", "inc.txt"), E("p2")>>
        extending == <<Tok("extends", "base.html"), E("i1")>>
    IN  { MakeDict(BaseOk, Nested(b[1], b[2]), IncPlain) :
            b \in {<<"if", "c">>, <<"apply", "f">>, <<"block", "u">>} }
        \cup {MakeDict(BaseOk, including, extending),
              MakeDict(BaseOk, PageExtends, Nested("if", "c"))}

\* control blocks with intermediate blocks: nested, in an apply block, in
\* an included template and in a named block that a child replaces
ControlDicts ==
    LET base == <<Tok("if", "c"), E("b1"), Tok("else", ""), E("b2"),
                  Tok("end", ""), Tok("block", "t"), E("b3"), Tok("end", "")>>
        page == <<Tok("try", ""), Tok("if", "c"), E("p1"), Tok("elif", "d"),
                  E("p2"), Tok("else", ""), Tok("end", ""),
                  Tok("except", "E"), Tok("finally", ""), Tok("end", ""),
                  Tok("include", "inc.txt"), Tok("apply", "f"),
                  Tok("for", "x in y"), Tok("else", ""), Tok("end", ""),
                  Tok("end", "")>>
        child == <<Tok("extends", "base.html"), Tok("block", "t"),
                   Tok("try", ""), E("p1"), Tok("except", "E"), E("p2"),
                   Tok("end", ""), Tok("end", "")>>
        inc == <<Tok("while", "c"), E("i1"), Tok("else", ""), E("i2"),
                 Tok("end", "")>>
    IN  {MakeDict(base, page, inc), MakeDict(base, child, inc)}

\* a child that replaces a parent's block with a block written inside the
\* child's own loop; the parent's block stands outside a loop, or inside one
LoopDicts ==
    LET outside == <<E("b1"), Tok("block", "t"), E("b2"), Tok("end", "")>>
        inside == <<Tok("while", "c"), Tok("block", "t"), E("b2"),
                    Tok("end", ""), Tok("end", "")>>
        child == <<Tok("extends", "base.html"), Tok("for", "x in y"),
                   Tok("block", "t"), Tok("break", ""), Tok("end", ""),
                   Tok("end", "")>>
    IN  {MakeDict(outside, child, IncPlain), MakeDict(inside, child, IncPlain)}

\* the template_string arguments of Template(..., loader=loader) beside them
GenSources ==
    { <<W("s"), Tok("whitespace", "oneline"), W("u"),
        Tok("include", "inc.txt"), W("v")>>,
      <<Tok("if", "c"), Tok("extends", "base.html"), Tok("end", "")>> }

\* a program that constructs no Template itself
NoCtor == [src |-> <<>>, autoescape |-> UNSET, loader |-> FALSE]

\* thread 1 is the main thread, which also resets the loader and constructs
\* Templates; the other threads only load
MainThreads == {1}

LoaderSettings(autoescape) == [autoescape |-> autoescape, whitespace |-> PyNone]

Init ==
    /\ \/ /\ dict \in InheritDicts
          /\ ctor = NoCtor
          /\ loader = LoaderSettings(DEFAULT_AUTOESCAPE)
       \/ /\ dict \in IncludeDicts
          /\ ctor = NoCtor
          /\ loader = LoaderSettings(DEFAULT_AUTOESCAPE)
       \/ /\ dict \in { MakeDict(BaseOk, p, i) :
                          p \in PageIncludes, i \in {IncPlain, IncDirective} }
          /\ ctor = NoCtor
          /\ loader = LoaderSettings(PyNone)
       \/ /\ dict = DefaultDict
          /\ ctor \in [src : DirectiveSources,
                       autoescape : {UNSET, "json_encode", PyNone},
                       loader : BOOLEAN]
          /\ loader = IF ctor.loader THEN LoaderSettings(PyNone)
                      ELSE LoaderSettings(DEFAULT_AUTOESCAPE)
       \/ /\ dict \in {DefaultDict,
                        MakeDict(BaseBogus, PageExtends, IncDirective)}
          /\ ctor \in [src : LoadingSources, autoescape : {UNSET},
                       loader : {TRUE}]
          /\ loader = LoaderSettings(DEFAULT_AUTOESCAPE)
       \/ /\ dict = DefaultDict
          /\ ctor \in [src : LoadingSources, autoescape : {UNSET},
                       loader : {FALSE}]
          /\ loader = LoaderSettings(DEFAULT_AUTOESCAPE)
    /\ templates = <<>>
    /\ lockOwner = NoThread
    /\ lockCount = 0
    /\ stack = [t \in Threads |-> <<>>]
    /\ result = [t \in Threads |-> NoResult]
    /\ opsLeft = MaxOps
    /\ nextId = 1
    /\ runs = Zero
    /\ succ = Zero
    /\ returned = [n \in Names |-> {}]

\* the programs of the code generator's templates
GenInit ==
    /\ \/ /\ dict \in WhitespaceDicts
          /\ ctor = NoCtor
          /\ loader \in {LoaderSettings(DEFAULT_AUTOESCAPE),
                         [LoaderSettings(DEFAULT_AUTOESCAPE)
                             EXCEPT !.whitespace = "oneline"]}
       \/ /\ dict \in NestedExtendsDicts \cup ControlDicts \cup LoopDicts
          /\ ctor = NoCtor
          /\ loader = LoaderSettings(DEFAULT_AUTOESCAPE)
       \/ /\ dict \in WhitespaceDicts \cup NestedExtendsDicts
          /\ ctor \in [src : GenSources, autoescape : {UNSET},
                       loader : {TRUE}]
          /\ loader = LoaderSettings(DEFAULT_AUTOESCAPE)
    /\ templates = <<>>
    /\ lockOwner = NoThread
    /\ lockCount = 0
    /\ stack = [t \in Threads |-> <<>>]
    /\ result = [t \in Threads |-> NoResult]
    /\ opsLeft = MaxOps
    /\ nextId = 1
    /\ runs = Zero
    /\ succ = Zero
    /\ returned = [n \in Names |-> {}]

(***************************************************************************)
(* Actions                                                                 *)
(***************************************************************************)
\* a thread calls loader.load(name): resolve_path, then wait for the lock
CallLoad(t, name) ==
    /\ stack[t] = <<>>
    /\ opsLeft > 0
    /\ opsLeft' = opsLeft - 1
    /\ stack' = [stack EXCEPT ![t] =
                   <<Frame("load", resolve_path(name, PyNone), "enter", 0)>>]
    /\ UNCHANGED <<dict, loader, ctor, templates, lockOwner, lockCount,
                   result, nextId, runs, succ, returned>>

\* "with self.lock: if name not in self.templates": the lock is taken and
\* the cache is looked up; a miss enters _create_template
LoadLock(t) ==
    /\ stack[t] # <<>>
    /\ Top(t).phase = "enter"
    /\ CanAcquire(t)
    /\ lockOwner' = t
    /\ lockCount' = lockCount + 1
    /\ LET f == [Top(t) EXCEPT !.snap = templates]
       IN  IF f.name \in DOMAIN templates
           THEN /\ stack' = SetTop(t, [f EXCEPT !.phase = "return",
                                               !.val = templates[f.name]])
                /\ UNCHANGED <<nextId, runs>>
           ELSE /\ stack' = SetTop(t, [f EXCEPT !.phase = "create",
                                               !.id = nextId])
                /\ nextId' = nextId + 1
                /\ runs' = [runs EXCEPT ![f.name] = @ + 1]
    /\ UNCHANGED <<dict, loader, ctor, templates, result, opsLeft, succ,
                   returned>>

\* the construction reaches a loader.load call: load(name, parent_path)
\* starts on top of the thread's stack
NestedLoad(t) ==
    /\ stack[t] # <<>>
    /\ Top(t).phase = "create"
    /\ Len(stack[t]) < RecursionLimit
    /\ \E m \in {Construction(Top(t))} :
           /\ m.st = "need"
           /\ stack' = [stack EXCEPT ![t] = Append(@,
                  Frame("load", resolve_path(m.need.name, m.need.parent_path),
                        "enter", 0))]
    /\ UNCHANGED <<dict, loader, ctor, templates, lockOwner, lockCount,
                   result, opsLeft, nextId, runs, succ, returned>>

\* the exception a construction ends with: its own, or the interpreter's
\* when the next load call would exceed the recursion limit
Raised(t, m) ==
    IF m.st = "need"
    THEN Error("RuntimeError", <<"maximum recursion depth exceeded">>, "", 0)
    ELSE m.err

Fails(t, m) ==
    m.st = "error" \/ (m.st = "need" /\ Len(stack[t]) >= RecursionLimit)

\* _create_template returns: the Template is stored in the cache
CreateReturn(t) ==
    /\ stack[t] # <<>>
    /\ Top(t).kind = "load"
    /\ Top(t).phase = "create"
    /\ \E m \in {Construction(Top(t))} :
           /\ m.st = "ok"
           /\ templates' = Install(templates, Top(t).name, m)
           /\ stack' = SetTop(t, [Top(t) EXCEPT !.phase = "return",
                                                !.val = m.val])
           /\ succ' = [succ EXCEPT ![Top(t).name] = @ + 1]
    /\ UNCHANGED <<dict, loader, ctor, lockOwner, lockCount, result, opsLeft,
                   nextId, runs, returned>>

\* _create_template raises: nothing is stored
CreateRaise(t) ==
    /\ stack[t] # <<>>
    /\ Top(t).kind = "load"
    /\ Top(t).phase = "create"
    /\ \E m \in {Construction(Top(t))} :
           /\ Fails(t, m)
           /\ templates' = Install(templates, Top(t).name,
                                   MRaise(m, Raised(t, m)))
           /\ stack' = SetTop(t, [Top(t) EXCEPT !.phase = "raise",
                                                !.err = Raised(t, m)])
    /\ UNCHANGED <<dict, loader, ctor, lockOwner, lockCount, result, opsLeft,
                   nextId, runs, succ, returned>>

\* the lock is released when the with block is left
Release ==
    /\ lockCount' = lockCount - 1
    /\ lockOwner' = IF lockCount = 1 THEN NoThread ELSE lockOwner

\* load returns self.templates[name] to its caller
LoadReturn(t) ==
    /\ stack[t] # <<>>
    /\ Top(t).kind = "load"
    /\ Top(t).phase = "return"
    /\ Release
    /\ returned' = [returned EXCEPT ![Top(t).name] = @ \cup {Top(t).val.id}]
    /\ IF Len(stack[t]) = 1
       THEN /\ stack' = [stack EXCEPT ![t] = <<>>]
            /\ result' = [result EXCEPT ![t] =
                    Result("load", Top(t).name, "ok", Top(t).val, NoError,
                           Top(t).snap, templates)]
       ELSE /\ stack' = [stack EXCEPT ![t] =
                    [Pop(t) EXCEPT ![Len(stack[t]) - 1].memo =
                         Append(@, Top(t).val)]]
            /\ UNCHANGED result
    /\ UNCHANGED <<dict, loader, ctor, templates, opsLeft, nextId, runs, succ>>

\* the exception leaves load: the lock is released and the caller's
\* construction ends with the same exception
LoadRaise(t) ==
    /\ stack[t] # <<>>
    /\ Top(t).kind = "load"
    /\ Top(t).phase = "raise"
    /\ Release
    /\ IF Len(stack[t]) = 1
       THEN /\ stack' = [stack EXCEPT ![t] = <<>>]
            /\ result' = [result EXCEPT ![t] =
                    Result("load", Top(t).name, "error", NoTemplate,
                           Top(t).err, Top(t).snap, templates)]
       ELSE /\ stack' = [stack EXCEPT ![t] =
                    [Pop(t) EXCEPT ![Len(stack[t]) - 1].phase = "raise",
                                   ![Len(stack[t]) - 1].err = Top(t).err]]
            /\ UNCHANGED result
    /\ UNCHANGED <<dict, loader, ctor, templates, opsLeft, nextId, runs, succ,
                   returned>>

\* loader.reset()
Reset(t) ==
    /\ t \in MainThreads
    /\ stack[t] = <<>>
    /\ opsLeft > 0
    /\ CanAcquire(t)
    /\ opsLeft' = opsLeft - 1
    /\ templates' = <<>>
    /\ result' = [result EXCEPT ![t] =
            Result("reset", "", "ok", NoTemplate, NoError, templates, <<>>)]
    /\ runs' = Zero
    /\ succ' = Zero
    /\ returned' = [n \in Names |-> {}]
    /\ UNCHANGED <<dict, loader, ctor, lockOwner, lockCount, stack, nextId>>

\* a thread calls Template(ctor.src, autoescape=ctor.autoescape,
\* loader=the loader or None)
CallTemplate(t) ==
    /\ t \in MainThreads
    /\ ctor # NoCtor
    /\ stack[t] = <<>>
    /\ opsLeft > 0
    /\ opsLeft' = opsLeft - 1
    /\ stack' = [stack EXCEPT ![t] =
                   <<Frame("template", StringName, "create", nextId)>>]
    /\ nextId' = nextId + 1
    /\ UNCHANGED <<dict, loader, ctor, templates, lockOwner, lockCount,
                   result, runs, succ, returned>>

\* Template(...) returns the new object
TemplateReturn(t) ==
    /\ stack[t] # <<>>
    /\ Top(t).kind = "template"
    /\ Top(t).phase = "create"
    /\ \E m \in {Construction(Top(t))} :
           /\ m.st = "ok"
           /\ result' = [result EXCEPT ![t] =
                   Result("template", StringName, "ok", m.val, NoError,
                          <<>>, <<>>)]
    /\ stack' = [stack EXCEPT ![t] = <<>>]
    /\ UNCHANGED <<dict, loader, ctor, templates, lockOwner, lockCount,
                   opsLeft, nextId, runs, succ, returned>>

\* Template(...) raises
TemplateRaise(t) ==
    /\ stack[t] # <<>>
    /\ Top(t).kind = "template"
    /\ \/ /\ Top(t).phase = "raise"
          /\ result' = [result EXCEPT ![t] =
                  Result("template", StringName, "error", NoTemplate,
                         Top(t).err, <<>>, <<>>)]
       \/ /\ Top(t).phase = "create"
          /\ \E m \in {Construction(Top(t))} :
                 /\ Fails(t, m)
                 /\ result' = [result EXCEPT ![t] =
                         Result("template", StringName, "error", NoTemplate,
                                Raised(t, m), <<>>, <<>>)]
    /\ stack' = [stack EXCEPT ![t] = <<>>]
    /\ UNCHANGED <<dict, loader, ctor, templates, lockOwner, lockCount,
                   opsLeft, nextId, runs, succ, returned>>

Next ==
    \E t \in Threads :
        \/ \E name \in Names : CallLoad(t, name)
        \/ LoadLock(t)
        \/ NestedLoad(t)
        \/ CreateReturn(t)
        \/ CreateRaise(t)
        \/ LoadReturn(t)
        \/ LoadRaise(t)
        \/ Reset(t)
        \/ CallTemplate(t)
        \/ TemplateReturn(t)
        \/ TemplateRaise(t)

(***************************************************************************)
(* Observations shared by the properties                                   *)
(***************************************************************************)
\* the frames of a thread that are inside _create_template for name
Creating(t, name) ==
    {i \in 1..Len(stack[t]) : /\ stack[t][i].kind = "load"
                              /\ stack[t][i].phase = "create"
                              /\ stack[t][i].name = name}

\* the Templates the program holds: cached ones and returned ones
Compiled ==
    {templates[n] : n \in DOMAIN templates}
    \cup {result[t].val : t \in {u \in Threads : result[u].st = "ok"
                                    /\ result[u].op \in {"load", "template"}}}

\* a Template that went through the whole of Template.__init__
Complete(template) == template.id > 0 /\ template.code # <<>>

\* the file body _parse makes of a source
ChunksOf(name, source) ==
    _parse(name, source, PState(1, 1, "all", DEFAULT_AUTOESCAPE), PyNone,
           PyNone, <<>>).chunks

\* the names of the extends markers at the root level of a source
RootExtends(name, source) ==
    LET chunks == ChunksOf(name, source)
    IN  {i \in 1..Len(chunks) : chunks[i].type = "_ExtendsBlock"}

\* the templates a template of the dict extends
Parents(n) ==
    IF n \in DOMAIN dict
    THEN {ChunksOf(n, dict[n])[i].arg : i \in RootExtends(n, dict[n])}
    ELSE {}

\* the templates reached from n through one or more extends markers
Ancestors(n) ==
    LET one == Parents(n)
        two == one \cup UNION {Parents(m) : m \in one}
    IN  two \cup UNION {Parents(m) : m \in two}

\* the extends chain of n runs into a cycle
CyclicExtends(n) == \E m \in Ancestors(n) \cup {n} : m \in Ancestors(m)

\* the templates the source of n names in extends and include directives
Uses(n) ==
    IF n \in DOMAIN dict
    THEN {dict[n][i].arg : i \in {j \in 1..Len(dict[n]) :
                                    dict[n][j].op \in {"extends", "include"}}}
    ELSE {}

UsesClosure(n) ==
    LET one == Uses(n)
        two == one \cup UNION {Uses(m) : m \in one}
    IN  two \cup UNION {Uses(m) : m \in two}

\* compiling n leads back to a template that is being compiled
Recursive(n) == \E m \in UsesClosure(n) \cup {n} : m \in UsesClosure(m)

(***************************************************************************)
(* C1                                                                      *)
(***************************************************************************)
\* C1 as stated: between two resets _create_template runs at most once per
\* resolved name, no two runs for a name are in progress together, and all
\* loads of the name return one object (stated for the names whose
\* compilation does not lead back to themselves).
C1_CreatedAtMostOnce ==
    \A n \in {m \in Names : ~Recursive(m)} :
        /\ runs[n] <= 1
        /\ Cardinality(UNION {{<<t, i>> : i \in Creating(t, n)} :
                               t \in Threads}) <= 1
        /\ Cardinality(returned[n]) <= 1

\* C1, amended: between two resets at most one run of _create_template per
\* resolved name returns a Template (a name is compiled again only after a
\* failed run, or inside the same thread's own run when its includes or
\* extends lead back to it), runs of different threads for a name are never
\* in progress together, and every load that returns, returns the one
\* cached object.
C1_OneTemplatePerName ==
    \A n \in Names :
        /\ succ[n] <= 1
        /\ \A t1, t2 \in Threads :
               t1 # t2 => Creating(t1, n) = {} \/ Creating(t2, n) = {}
        /\ Cardinality(returned[n]) <= 1
        /\ returned[n] # {} =>
               n \in DOMAIN templates /\ returned[n] = {templates[n].id}

\* two threads have loaded the same name and both got a Template, after a
\* single compilation
C1_Witness ==
    /\ result[1].op = "load" /\ result[1].st = "ok"
    /\ result[2].op = "load" /\ result[2].st = "ok"
    /\ result[1].name = result[2].name
    /\ result[1].val.id = result[2].val.id
    /\ runs[result[1].name] = 1

(***************************************************************************)
(* C2                                                                      *)
(***************************************************************************)
\* C2: after a load(name) whose compilation failed, the cache has no entry
\* for name, the entries cached before the call are unchanged, the thread
\* no longer holds the lock, and no load ever returns anything but a
\* Template that went through the whole construction.
C2_FailedLoadLeavesNoEntry ==
    /\ \A t \in Threads :
           result[t].op = "load" /\ result[t].st = "error" =>
               /\ result[t].name \notin DOMAIN result[t].after
               /\ \A n \in DOMAIN result[t].before :
                      /\ n \in DOMAIN result[t].after
                      /\ result[t].after[n] = result[t].before[n]
               /\ stack[t] = <<>> => lockOwner # t
    /\ \A t \in Threads : \A i \in 1..Len(stack[t]) :
           stack[t][i].phase = "return" => Complete(stack[t][i].val)
    /\ \A t \in Threads :
           result[t].op = "load" /\ result[t].st = "ok" =>
               Complete(result[t].val)

\* a load failed after it had cached a template it extends; the name was
\* loaded again, was compiled again and failed again, and the template
\* cached by the first call is still the cached one
C2_Witness ==
    \E t \in Threads :
        /\ result[t].op = "load" /\ result[t].st = "error"
        /\ ~Recursive(result[t].name)
        /\ runs[result[t].name] = 2
        /\ stack[t] = <<>>
        /\ lockOwner = NoThread
        /\ DOMAIN result[t].before # {}
        /\ DOMAIN result[t].after = DOMAIN result[t].before

(***************************************************************************)
(* C3                                                                      *)
(***************************************************************************)
\* C3: a load of a template whose extends chain is cyclic ends with a
\* ParseError.
C3_CycleRaisesParseError ==
    \A t \in Threads :
        result[t].op = "load" /\ CyclicExtends(result[t].name) =>
            result[t].st = "error" /\ result[t].err.type = "ParseError"

(***************************************************************************)
(* C4                                                                      *)
(***************************************************************************)
\* C4: no Template exists whose source has more than one extends marker at
\* its root level; loading such a source ends with an error.
C4_TwoExtendsRejected ==
    /\ \A template \in Compiled :
           Cardinality({i \in 1..Len(template.chunks) :
                          template.chunks[i].type = "_ExtendsBlock"}) <= 1
    /\ \A t \in Threads :
           /\ result[t].op = "load"
           /\ result[t].name \in DOMAIN dict
           /\ Cardinality(RootExtends(result[t].name,
                                      dict[result[t].name])) > 1
           => result[t].st = "error"

(***************************************************************************)
(* C5                                                                      *)
(***************************************************************************)
\* C5: Template(...) of a source with a root-level extends marker and no
\* loader ends with a ParseError that carries message, filename and line.
C5_NoLoaderRaisesParseError ==
    \A t \in Threads :
        /\ result[t].op = "template"
        /\ ~ctor.loader
        /\ RootExtends(StringName, ctor.src) # {}
        => /\ result[t].st = "error"
           /\ result[t].err.type = "ParseError"
           /\ result[t].err.filename = StringName
           /\ result[t].err.lineno >= 1

(***************************************************************************)
(* Reading sources and generated code                                      *)
(***************************************************************************)
\* the source a template name stands for
SourceOf(n) == IF n = StringName THEN ctor.src ELSE dict[n]

HasSource(n) == n = StringName \/ n \in DOMAIN dict

\* whether the template of that name is built with a loader
WithLoader(n) == n # StringName \/ ctor.loader

\* the file body Template.__init__ parses for that name
BodyOf(n) ==
    _parse(n, SourceOf(n),
           PState(1, 1, InitWhitespace(n, PyNone, Env(WithLoader(n), <<>>)),
                  DEFAULT_AUTOESCAPE),
           PyNone, PyNone, <<>>).chunks

\* the positions of the autoescape directives of a source
Directives(src) == {i \in 1..Len(src) : src[i].op = "autoescape"}

DirectiveValue(tok) == IF tok.arg = "None" THEN PyNone ELSE tok.arg

\* the setting the last directive among the positions ds asks for
LastDirective(src, ds) ==
    DirectiveValue(src[CHOOSE i \in ds : \A j \in ds : j <= i])

\* the setting a template has when no directive has been met: constructor
\* argument, else the loader's default, else the engine's default
ArgumentSetting(n) ==
    IF n = StringName /\ ctor.autoescape # UNSET THEN ctor.autoescape
    ELSE IF WithLoader(n) THEN loader.autoescape
    ELSE DEFAULT_AUTOESCAPE

\* directive first, then constructor argument, loader, engine
OwnSetting(n) ==
    IF Directives(SourceOf(n)) # {}
    THEN LastDirective(SourceOf(n), Directives(SourceOf(n)))
    ELSE ArgumentSetting(n)

\* constructor argument first, then directive, loader, engine
ClaimedSetting(n) ==
    IF n = StringName /\ ctor.autoescape # UNSET THEN ctor.autoescape
    ELSE OwnSetting(n)

\* the setting in effect at position k of the source of n, reading the
\* source from its start
SettingBefore(n, k) ==
    LET ds == {i \in Directives(SourceOf(n)) : i < k}
    IN  IF ds # {} THEN LastDirective(SourceOf(n), ds) ELSE ArgumentSetting(n)

\* the position of expression e in the source of n
PositionOf(n, e) == CHOOSE i \in 1..Len(SourceOf(n)) : SourceOf(n)[i] = E(e)

Writes(n, e) == \E i \in 1..Len(SourceOf(n)) : SourceOf(n)[i] = E(e)

\* the template in whose source expression e is written
OwnerOf(e) == CHOOSE n \in DOMAIN dict \cup {StringName} : Writes(n, e)

\* the source of u has an include directive for n
IncludedBy(n, u) ==
    HasSource(u) /\ \E i \in 1..Len(SourceOf(u)) :
                        SourceOf(u)[i] = Tok("include", n)

\* the lines of generated code that evaluate an expression
ExprLines(code) == {i \in 1..Len(code) : code[i].code = "_tt_tmp = %s"}

\* the escaping function the generated code applies to the expression
\* evaluated at line i (PyNone: none)
EscapeAt(code, i) ==
    IF code[i + 3].code = "_tt_tmp = _tt_utf8(%s(_tt_tmp))"
    THEN code[i + 3].arg
    ELSE PyNone

\* what the generated code appends, in order: texts and expressions
IsContent(line) == line.code \in {"_tt_append(%r)", "_tt_tmp = %s"}

Item(arg, text) == [arg |-> arg, text |-> text]

RECURSIVE Content(_)
Content(code) ==
    IF code = <<>> THEN <<>>
    ELSE (IF IsContent(Head(code))
          THEN <<Item(Head(code).arg, Head(code).text)>> ELSE <<>>)
         \o Content(Tail(code))

(***************************************************************************)
(* C6: inheritance, stated on sources                                      *)
(***************************************************************************)
\* the extends chain of n, most-derived first, as long as each member has
\* one parent
RECURSIVE ChainOf(_, _)
ChainOf(n, fuel) ==
    LET ps == IF HasSource(n)
              THEN {BodyOf(n)[i].arg : i \in RootExtends(n, SourceOf(n))}
              ELSE {}
    IN  IF fuel = 0 \/ Cardinality(ps) # 1 THEN <<n>>
        ELSE <<n>> \o ChainOf(CHOOSE q \in ps : TRUE, fuel - 1)

\* n and its ancestors form a chain: one extends marker at most in each
Linear(n) ==
    /\ ~CyclicExtends(n)
    /\ \A m \in {n} \cup Ancestors(n) :
           HasSource(m) /\ Cardinality(RootExtends(m, SourceOf(m))) <= 1
    /\ Cardinality(RootExtends(n, SourceOf(n))) <= 1

\* the named blocks of a body in document order; with expand, an include
\* marker stands for the blocks of the included template
RECURSIVE BlocksIn(_, _, _)
BlocksIn(chunks, expand, fuel) ==
    IF chunks = <<>> \/ fuel = 0 THEN <<>>
    ELSE LET node == Head(chunks)
             here ==
               IF node.type = "_NamedBlock"
               THEN <<[name |-> node.arg, body |-> node.body]>>
                    \o BlocksIn(node.body, expand, fuel)
               ELSE IF node.type \in {"_ControlBlock", "_ApplyBlock"}
               THEN BlocksIn(node.body, expand, fuel)
               ELSE IF node.type = "_IncludeBlock" /\ expand
                       /\ node.arg \in DOMAIN dict
               THEN BlocksIn(BodyOf(node.arg), expand, fuel - 1)
               ELSE <<>>
         IN  here \o BlocksIn(Tail(chunks), expand, fuel)

\* the blocks of a chain, from the outermost ancestor to the most-derived
RECURSIVE ChainBlocks(_, _)
ChainBlocks(chain, expand) ==
    IF chain = <<>> THEN <<>>
    ELSE ChainBlocks(Tail(chain), expand)
         \o BlocksIn(BodyOf(Head(chain)), expand, RecursionLimit + 1)

\* the body of the last block of that name
Winner(blocks, name) ==
    blocks[CHOOSE i \in 1..Len(blocks) :
             /\ blocks[i].name = name
             /\ \A j \in (i + 1)..Len(blocks) : blocks[j].name # name].body

\* what a body appends when each named block stands for its winner
RECURSIVE Render(_, _, _)
Render(chunks, blocks, fuel) ==
    IF chunks = <<>> \/ fuel = 0 THEN <<>>
    ELSE LET node == Head(chunks)
             value == IF HasPre(node.text) THEN node.text
                      ELSE filter_whitespace(node.whitespace, node.text)
             here ==
               IF node.type = "_Text"
               THEN IF value # <<>> THEN <<Item("", value)>> ELSE <<>>
               ELSE IF node.type = "_Expression"
               THEN <<Item(node.arg, <<>>)>>
               ELSE IF node.type = "_NamedBlock"
               THEN IF \E i \in 1..Len(blocks) : blocks[i].name = node.arg
                    THEN Render(Winner(blocks, node.arg), blocks, fuel - 1)
                    ELSE <<>>
               ELSE IF node.type \in {"_ControlBlock", "_ApplyBlock"}
               THEN Render(node.body, blocks, fuel - 1)
               ELSE IF node.type = "_IncludeBlock" /\ node.arg \in DOMAIN dict
               THEN Render(BodyOf(node.arg), blocks, fuel - 1)
               ELSE <<>>
         IN  here \o Render(Tail(chunks), blocks, fuel)

\* the output the chain of n stands for
Expected(n, expand) ==
    LET chain == ChainOf(n, Cardinality(Names))
    IN  Render(BodyOf(chain[Len(chain)]), ChainBlocks(chain, expand),
               RecursionLimit + 2)

\* the names whose Template the program holds, with the Template
Held ==
    {<<n, templates[n]>> : n \in DOMAIN templates}
    \cup {<<StringName, result[t].val>> :
            t \in {u \in Threads : result[u].op = "template"
                                   /\ result[u].st = "ok"}}

\* C6 as stated: the generated code of a template that extends a parent
\* (a chain of two templates or more) appends the body of the
\* outermost ancestor, each named block standing for the last block of
\* that name written in the most-derived template of the chain that writes
\* one; nothing else of a child is appended.
C6_ChildBlocksWin ==
    \A h \in Held :
        Linear(h[1]) /\ Len(ChainOf(h[1], Cardinality(Names))) >= 2
            => Content(h[2].code) = Expected(h[1], FALSE)

\* C6, amended: as C6, but the block that wins is the last one met when
\* the chain is walked from the outermost ancestor to the most-derived
\* template, where an include marker of a chain member stands for the
\* blocks of the included template.
C6_LastCollectedBlockWins ==
    \A h \in Held :
        Linear(h[1]) => Content(h[2].code) = Expected(h[1], TRUE)

\* a chain of three templates is compiled, the block of the outermost
\* ancestor is overridden further down, and the most-derived template has
\* content of its own
C6_Witness ==
    /\ "inc.txt" \in DOMAIN templates
    /\ Linear("inc.txt")
    /\ Len(ChainOf("inc.txt", 3)) = 3
    /\ \E i \in 1..Len(templates["inc.txt"].code) :
           /\ templates["inc.txt"].code[i].code = "_tt_tmp = %s"
           /\ templates["inc.txt"].code[i].tmpl # "base.html"
           /\ templates["inc.txt"].code[i].via # <<>>

(***************************************************************************)
(* C7                                                                      *)
(***************************************************************************)
\* C7 as stated: a Template's setting is the constructor argument if one
\* was given, else the directive of its text, else the loader's default,
\* else xhtml_escape; its own expressions are escaped with that setting.
C7_ArgumentWins ==
    \A h \in Held :
        /\ h[2].autoescape = ClaimedSetting(h[1])
        /\ \A i \in ExprLines(h[2].code) :
               OwnerOf(h[2].code[i].arg) = h[1] =>
                   EscapeAt(h[2].code, i) = ClaimedSetting(h[1])

\* C7, amended: a Template's setting is the last autoescape directive of
\* its text if it has one, else the constructor argument if one was given,
\* else the loader's default, else xhtml_escape; its own expressions are
\* escaped with that setting.
C7_DirectiveWins ==
    \A h \in Held :
        /\ h[2].autoescape = OwnSetting(h[1])
        /\ \A i \in ExprLines(h[2].code) :
               OwnerOf(h[2].code[i].arg) = h[1] =>
                   EscapeAt(h[2].code, i) = OwnSetting(h[1])

\* a Template was built with an autoescape argument from a text whose
\* directive asks for another setting
C7_Witness ==
    \E t \in Threads :
        /\ result[t].op = "template" /\ result[t].st = "ok"
        /\ ctor.autoescape # UNSET
        /\ Directives(ctor.src) # {}
        /\ OwnSetting(StringName) # ctor.autoescape
        /\ ExprLines(result[t].val.code) # {}

(***************************************************************************)
(* C8                                                                      *)
(***************************************************************************)
\* the expression lines of code that an include marker of u generated from
\* a directive-free template n
IncludedLines(code) ==
    {i \in ExprLines(code) :
        LET n == OwnerOf(code[i].arg)
        IN  /\ code[i].via # <<>>
            /\ n \in DOMAIN dict
            /\ Directives(dict[n]) = {}
            /\ IncludedBy(n, code[i].via[Len(code[i].via)].name)}

\* C8 as stated: the expressions of an included template without a
\* directive are escaped with the setting of the including template.
C8_IncluderSetting ==
    \A h \in Held : \A i \in IncludedLines(h[2].code) :
        EscapeAt(h[2].code, i)
            = OwnSetting(h[2].code[i].via[Len(h[2].code[i].via)].name)

\* C8, amended: the expressions of an included template without a
\* directive are escaped with the included template's own setting, the
\* loader's default, whatever the setting of the including template.
C8_IncludedSetting ==
    \A h \in Held : \A i \in IncludedLines(h[2].code) :
        EscapeAt(h[2].code, i) = loader.autoescape

\* a template whose directive disables escaping includes a directive-free
\* template under a loader that escapes by default
C8_Witness ==
    \E h \in Held : \E i \in IncludedLines(h[2].code) :
        /\ OwnSetting(h[2].code[i].via[Len(h[2].code[i].via)].name) = PyNone
        /\ loader.autoescape = DEFAULT_AUTOESCAPE

(***************************************************************************)
(* C9                                                                      *)
(***************************************************************************)
\* the templates with a directive that the source of u includes
DirectiveIncludes(u) ==
    {n \in DOMAIN dict : IncludedBy(n, u) /\ Directives(dict[n]) # {}}

\* C9: every expression of a template that includes a template with an
\* autoescape directive is escaped with the includer's own setting, the
\* one its source and arguments give it without the include.
C9_IncluderUnaffected ==
    \A h \in Held : \A i \in ExprLines(h[2].code) :
        LET u == OwnerOf(h[2].code[i].arg)
        IN  DirectiveIncludes(u) # {} =>
                EscapeAt(h[2].code, i) = OwnSetting(u)

\* generated code holds an expression of the includer after the lines of an
\* included template whose directive asks for another setting
C9_Witness ==
    \E h \in Held : \E i, j \in ExprLines(h[2].code) :
        /\ i < j
        /\ OwnerOf(h[2].code[j].arg) = h[1]
        /\ OwnerOf(h[2].code[i].arg) \in DirectiveIncludes(h[1])
        /\ EscapeAt(h[2].code, i) # EscapeAt(h[2].code, j)

(***************************************************************************)
(* C10                                                                     *)
(***************************************************************************)
\* the expression lines of code whose expression stands before an
\* autoescape directive of its own source
EarlyLines(code) ==
    {i \in ExprLines(code) :
        LET n == OwnerOf(code[i].arg)
        IN  \E d \in Directives(SourceOf(n)) : PositionOf(n, code[i].arg) < d}

\* C10 as stated: an expression is escaped with the setting in effect at
\* its place in the source: the one of the last directive before it, or the
\* initial one.
C10_SettingAtPosition ==
    \A h \in Held : \A i \in ExprLines(h[2].code) :
        LET n == OwnerOf(h[2].code[i].arg)
        IN  Directives(SourceOf(n)) # {} =>
                EscapeAt(h[2].code, i)
                    = SettingBefore(n, PositionOf(n, h[2].code[i].arg))

\* C10, amended: every expression of a template, before or after the
\* directive, is escaped with the setting of the last autoescape directive
\* of the template.
C10_LastDirectiveEverywhere ==
    \A h \in Held : \A i \in ExprLines(h[2].code) :
        LET n == OwnerOf(h[2].code[i].arg)
        IN  Directives(SourceOf(n)) # {} =>
                EscapeAt(h[2].code, i)
                    = LastDirective(SourceOf(n), Directives(SourceOf(n)))

\* generated code holds an expression that stands before a directive which
\* changes the setting
C10_Witness ==
    \E h \in Held : \E i \in EarlyLines(h[2].code) :
        LET n == OwnerOf(h[2].code[i].arg)
        IN  SettingBefore(n, PositionOf(n, h[2].code[i].arg)) # OwnSetting(n)

(***************************************************************************)
(* Template.generate                                                       *)
(***************************************************************************)
\* dict.update
Update(d, e) ==
    [n \in DOMAIN d \cup DOMAIN e |-> IF n \in DOMAIN e THEN e[n] ELSE d[n]]

\* the namespace in which generate(**kwargs) runs the compiled code and
\* calls _tt_execute; the loader's namespace argument is left at its
\* default, {}
GenerateNamespace(template, kwargs) ==
    LET namespace ==
            ("escape" :> "escape.xhtml_escape")
            @@ ("xhtml_escape" :> "escape.xhtml_escape")
            @@ ("url_escape" :> "escape.url_escape")
            @@ ("json_encode" :> "escape.json_encode")
            @@ ("squeeze" :> "escape.squeeze")
            @@ ("linkify" :> "escape.linkify")
            @@ ("datetime" :> "datetime")
            @@ ("_tt_utf8" :> "escape.utf8")
            @@ ("_tt_string_types" :> "(unicode_type, bytes)")
            @@ ("__name__" :> template.name)
            @@ ("__loader__" :> "ObjectDict")
    IN  Update(Update(Update(namespace, <<>>), kwargs),
               "_tt_execute" :> "def _tt_execute")

\* the keyword arguments the program passes to generate
Kwargs ==
    UNION { [S -> {"user value"}] :
              S \in SUBSET {"x", "_tt_utf8", "_tt_execute"} }

\* a thread calls generate(**kwargs) on the Template its last call
\* returned; the outcome keeps kwargs (before) and the namespace (after)
Generate(t) ==
    /\ stack[t] = <<>>
    /\ opsLeft > 0
    /\ result[t].op \in {"template", "load"}
    /\ result[t].st = "ok"
    /\ opsLeft' = opsLeft - 1
    /\ \E kwargs \in Kwargs :
           result' = [result EXCEPT ![t] =
               Result("generate", result[t].name, "ok", result[t].val,
                      NoError, kwargs,
                      GenerateNamespace(result[t].val, kwargs))]
    /\ UNCHANGED <<dict, loader, ctor, templates, lockOwner, lockCount,
                   stack, nextId, runs, succ, returned>>

(***************************************************************************)
(* A program without loader: Template(template_string) for every           *)
(* template string of MaxLen block directives at most, then generate.      *)
(***************************************************************************)
ParseTokens ==
    { Tok("if", "c"), Tok("for", "x in y"), Tok("while", "c"),
      Tok("try", ""), Tok("block", "t"), Tok("apply", "f"),
      Tok("else", ""), Tok("elif", "c"), Tok("except", "E"),
      Tok("finally", ""), Tok("end", ""), Tok("break", ""),
      Tok("continue", "") }

ParseInit ==
    /\ dict = <<>>
    /\ loader = LoaderSettings(DEFAULT_AUTOESCAPE)
    /\ ctor \in [src : UNION {[1..n -> ParseTokens] : n \in 1..MaxLen},
                 autoescape : {UNSET}, loader : {FALSE}]
    /\ templates = <<>>
    /\ lockOwner = NoThread
    /\ lockCount = 0
    /\ stack = [t \in Threads |-> <<>>]
    /\ result = [t \in Threads |-> NoResult]
    /\ opsLeft = MaxOps
    /\ nextId = 1
    /\ runs = Zero
    /\ succ = Zero
    /\ returned = [n \in Names |-> {}]

ParseNext ==
    \E t \in Threads :
        \/ CallTemplate(t)
        \/ TemplateReturn(t)
        \/ TemplateRaise(t)
        \/ Generate(t)

(***************************************************************************)
(* C11, C12, C13: the parser, stated on the template string                *)
(***************************************************************************)
\* the operators of the blocks open before token k of a template string,
\* outermost first: a block operator opens a block, end closes the last
RECURSIVE OpenBlocks(_, _)
OpenBlocks(toks, k) ==
    IF k <= 1 THEN <<>>
    ELSE LET open == OpenBlocks(toks, k - 1)
             op == toks[k - 1].op
         IN  IF op \in BlockOperators THEN Append(open, op)
             ELSE IF op = "end" /\ open # <<>>
             THEN SubSeq(open, 1, Len(open) - 1)
             ELSE open

\* the finished Template(ctor.src) calls
Parsed == {t \in Threads : result[t].op = "template"}

\* C11: an else, elif, except or finally directive is accepted only where
\* the innermost open block is of a matching kind (else: if, for, while,
\* try; elif: if; except and finally: try).  A template string with such
\* a directive anywhere else is rejected with ParseError and no Template
\* exists; a ParseError about an intermediate block is raised for no other
\* reason; and an accepted directive is a header of the generated code.
C11_IntermediateOnlyInMatchingBlock ==
    \A t \in Parsed :
        LET toks == ctor.src
            r == result[t]
            matching == [else |-> {"if", "for", "while", "try"},
                         elif |-> {"if"},
                         except |-> {"try"},
                         finally |-> {"try"}]
            At(k) == toks[k].op \in DOMAIN matching
            Misplaced(k) ==
                /\ At(k)
                /\ \/ OpenBlocks(toks, k) = <<>>
                   \/ OpenBlocks(toks, k)[Len(OpenBlocks(toks, k))]
                          \notin matching[toks[k].op]
        IN  /\ (\E k \in 1..Len(toks) : Misplaced(k)) =>
                  /\ r.st = "error"
                  /\ r.err.type = "ParseError"
                  /\ r.val = NoTemplate
            /\ r.err.type = "ParseError"
               /\ r.err.message[1] \in {"outside block",
                                        "block cannot be attached to"} =>
                  \E k \in 1..Len(toks) :
                      /\ Misplaced(k)
                      /\ r.err.message[2] = toks[k].op
            /\ r.st = "ok" =>
                  Cardinality({k \in 1..Len(toks) : At(k)})
                  = Cardinality({i \in 1..Len(r.val.code) :
                        /\ r.val.code[i].code = "%s:"
                        /\ r.val.code[i].op \in DOMAIN matching})

\* an else directly inside a block that stands inside an if was rejected
C11_Witness ==
    \E t \in Parsed :
        /\ Len(ctor.src) = 3
        /\ ctor.src[1].op = "if"
        /\ ctor.src[2].op = "block"
        /\ ctor.src[3].op = "else"
        /\ result[t].st = "error"
        /\ result[t].err.type = "ParseError"
        /\ result[t].err.message = <<"block cannot be attached to", "else",
                                     "block">>

\* C12: a break or continue directive is accepted exactly when some open
\* block is a for or a while and no apply is open inside that loop (if,
\* try and block bodies keep the loop of their surroundings, an apply body
\* starts outside any loop).  A template string with the directive
\* anywhere else is rejected with ParseError (at that directive when only
\* block openers precede it), the "outside loop block" ParseError is
\* raised for no other reason, and a template string of
\* blocks, ends, breaks and continues that is balanced and has every
\* break and continue inside a loop parses.
C12_BreakOnlyInsideLoop ==
    \A t \in Parsed :
        LET toks == ctor.src
            r == result[t]
            Enclosed(open) ==
                \E i \in 1..Len(open) :
                    /\ open[i] \in {"for", "while"}
                    /\ \A j \in (i + 1)..Len(open) : open[j] # "apply"
            Outside(k) ==
                /\ toks[k].op \in {"break", "continue"}
                /\ ~Enclosed(OpenBlocks(toks, k))
            Plain ==
                /\ \A k \in 1..Len(toks) :
                       /\ toks[k].op \in BlockOperators
                                         \cup {"end", "break", "continue"}
                       /\ toks[k].op = "end" => OpenBlocks(toks, k) # <<>>
                /\ OpenBlocks(toks, Len(toks) + 1) = <<>>
        IN  /\ (\E k \in 1..Len(toks) : Outside(k)) =>
                  /\ r.st = "error"
                  /\ r.err.type = "ParseError"
                  /\ r.val = NoTemplate
            /\ \A k \in 1..Len(toks) :
                  /\ Outside(k)
                  /\ \A j \in 1..(k - 1) : toks[j].op \in BlockOperators
                  => r.err.message = <<"outside loop block", toks[k].op>>
            /\ r.err.type = "ParseError"
               /\ r.err.message[1] = "outside loop block" =>
                  \E k \in 1..Len(toks) :
                      /\ Outside(k)
                      /\ r.err.message[2] = toks[k].op
            /\ Plain /\ (\A k \in 1..Len(toks) : ~Outside(k)) =>
                  r.err.type # "ParseError"

\* a break in an apply body inside a for loop was rejected
C12_Witness ==
    \E t \in Parsed :
        /\ Len(ctor.src) = 3
        /\ ctor.src[1].op = "for"
        /\ ctor.src[2].op = "apply"
        /\ ctor.src[3].op = "break"
        /\ result[t].st = "error"
        /\ result[t].err.type = "ParseError"
        /\ result[t].err.message = <<"outside loop block", "break">>

\* C13: a template string parses only when its block openers and its
\* end directives are balanced, every end closing the innermost open
\* block.  An end with no block open is rejected with the "Extra end"
\* ParseError; a template string that ends with a block open is rejected
\* with the "Missing end" ParseError naming the operator of the innermost
\* block still open; neither message is raised for another reason; and
\* for a template string of block openers and ends the outcome is exactly
\* the one of its first unmatched end, else of its innermost open block.
C13_BalancedBlocks ==
    \A t \in Parsed :
        LET toks == ctor.src
            r == result[t]
            left == OpenBlocks(toks, Len(toks) + 1)
            Extra(k) == toks[k].op = "end" /\ OpenBlocks(toks, k) = <<>>
            Plain == \A k \in 1..Len(toks) :
                        toks[k].op \in BlockOperators \cup {"end"}
        IN  /\ r.st = "ok" =>
                  /\ left = <<>>
                  /\ \A k \in 1..Len(toks) : ~Extra(k)
            /\ (left # <<>> \/ \E k \in 1..Len(toks) : Extra(k)) =>
                  /\ r.st = "error"
                  /\ r.err.type = "ParseError"
                  /\ r.val = NoTemplate
            /\ r.err.type = "ParseError"
               /\ r.err.message[1] = "Extra {% end %} block" =>
                  \E k \in 1..Len(toks) : Extra(k)
            /\ r.err.type = "ParseError"
               /\ r.err.message[1] = "Missing {% end %} block for" =>
                  /\ left # <<>>
                  /\ r.err.message[2] = left[Len(left)]
            /\ Plain =>
                  IF \E k \in 1..Len(toks) : Extra(k)
                  THEN r.err.message = <<"Extra {% end %} block">>
                  ELSE IF left # <<>>
                  THEN r.err.message = <<"Missing {% end %} block for",
                                         left[Len(left)]>>
                  ELSE r.err.type # "ParseError"

\* a for block was left open after the if inside it was closed: the error
\* names for, the innermost block still open
C13_Witness ==
    \E t \in Parsed :
        /\ Len(ctor.src) = 3
        /\ ctor.src[1].op = "for"
        /\ ctor.src[2].op = "if"
        /\ ctor.src[3].op = "end"
        /\ result[t].st = "error"
        /\ result[t].err.type = "ParseError"
        /\ result[t].err.message = <<"Missing {% end %} block for", "for">>

(***************************************************************************)
(* C14: the whitespace directive                                           *)
(***************************************************************************)
\* C14: every text chunk the generated code of a held Template appends was
\* filtered with the mode of the last whitespace directive that stands
\* before the chunk in the source of the chunk's own template, whatever
\* block the directive and the chunk stand in, and with the template's
\* initial mode when no directive stands before it; the directives of
\* other templates (an included one, the includer, a parent) do not count.
\* Stated on the chunks made of a letter and the run "  \n ", which "all"
\* keeps, "single" makes "\n" and "oneline" makes " ".
C14_WhitespaceFileScoped ==
    \A h \in Held : \A i \in 1..Len(h[2].code) :
        LET line == h[2].code[i]
            src == SourceOf(line.tmpl)
            Chunks == {k \in 1..Len(src) :
                          /\ src[k].op = "text"
                          /\ src[k].text = <<line.text[1], " ", " ", "\n", " ">>}
            Mode(k) ==
                LET ds == {j \in 1..(k - 1) : src[j].op = "whitespace"}
                IN  IF ds = {}
                    THEN InitWhitespace(line.tmpl, PyNone,
                                        Env(WithLoader(line.tmpl), <<>>))
                    ELSE src[CHOOSE j \in ds : \A d \in ds : d <= j].arg
            Filtered(mode, text) ==
                IF mode = "all" THEN text
                ELSE IF mode = "single" THEN <<text[1], "\n">>
                ELSE <<text[1], " ">>
        IN  line.code = "_tt_append(%r)" =>
                \A k \in Chunks : line.text = Filtered(Mode(k), src[k].text)

\* page.html, whose initial mode is "single", was loaded: the chunk after
\* the end of the block that holds its oneline directive is filtered
\* "oneline", the included chunk "single" by the included directive, and
\* the chunk after the include "oneline" again
C14_Witness ==
    /\ loader.whitespace = PyNone
    /\ "page.html" \in DOMAIN templates
    /\ \E i, j, k \in 1..Len(templates["page.html"].code) :
           LET code == templates["page.html"].code
           IN  /\ i < j
               /\ j < k
               /\ code[i].tmpl = "page.html"
               /\ code[i].text = <<"d", " ">>
               /\ code[j].tmpl = "inc.txt"
               /\ code[j].text = <<"h", "\n">>
               /\ code[k].tmpl = "page.html"
               /\ code[k].text = <<"e", " ">>

(***************************************************************************)
(* C15: the keyword arguments of generate                                  *)
(***************************************************************************)
\* C15 as stated: after a generate call, every keyword argument
\* whose name begins with _tt_ was rejected (the call raised) or the
\* environment the compiled code ran in binds the name to what the engine
\* binds it to in a call without keyword arguments.
C15_EngineBindingsKept ==
    \A t \in Threads :
        result[t].op = "generate" =>
            \A k \in DOMAIN result[t].before \cap {"_tt_utf8", "_tt_execute"} :
                \/ result[t].st = "error"
                \/ result[t].after[k]
                       = GenerateNamespace(result[t].val, <<>>)[k]

(***************************************************************************)
(* C16: extends markers below the root level                               *)
(***************************************************************************)
\* C16 as stated: loading a template whose extends marker stands inside a
\* control, apply or named block, or which includes a template that has an
\* extends marker at its top level, returns a Template: the marker is
\* ignored, the generated code holds no line of the template the marker
\* names, and no exception is raised.  Stated for templates that have no
\* root-level extends marker of their own.
C16_NestedExtendsIgnored ==
    \A t \in Threads :
        LET r == result[t]
            Markers(n) == {k \in 1..Len(dict[n]) : dict[n][k].op = "extends"}
            Nested(n) == {k \in Markers(n) : OpenBlocks(dict[n], k) # <<>>}
            Root(n) == Markers(n) \ Nested(n)
            Included(n) ==
                {i \in DOMAIN dict : /\ IncludedBy(i, n)
                                     /\ Root(i) # {}
                                     /\ Nested(i) = {}}
            Named(n) ==
                {dict[n][k].arg : k \in Nested(n)}
                \cup UNION {{dict[i][k].arg : k \in Root(i)} : i \in Included(n)}
        IN  /\ r.op = "load"
            /\ r.name \in DOMAIN dict
            /\ Root(r.name) = {}
            /\ Nested(r.name) # {} \/ Included(r.name) # {}
            => /\ r.st = "ok"
               /\ \A i \in 1..Len(r.val.code) : r.val.code[i].tmpl \notin Named(r.name)

(***************************************************************************)
(* C17: the indent of the code writer                                      *)
(***************************************************************************)
\* C17: when the code generation of a template has run to its end (the
\* template and all it includes and extends parsed and generated), the
\* writer's indent is 0 again, no line was written at a negative indent
\* (every indent level the writer went through has a line: the bodies end
\* with "pass" or "return"), and every else, elif, except and finally
\* header stands at indent 1 or more, at the indent of the if, for, while
\* or try header of its block: that header comes before it, is of a kind
\* the intermediate block matches, and between the two only intermediate
\* headers of the same block stand at their indent, all else deeper.
C17_IndentDiscipline ==
    \A t \in Threads :
        stack[t] # <<>> /\ Top(t).phase = "create" =>
            \A m \in {Construction(Top(t))} :
                LET code == m.w.lines
                    matching == [else |-> {"if", "for", "while", "try"},
                                 elif |-> {"if"},
                                 except |-> {"try"},
                                 finally |-> {"try"}]
                    Header(i, ops) ==
                        code[i].code = "%s:" /\ code[i].op \in ops
                    Owns(j, i) ==
                        /\ Header(j, matching[code[i].op])
                        /\ code[j].indent = code[i].indent
                        /\ \A k \in (j + 1)..(i - 1) :
                              \/ code[k].indent > code[i].indent
                              \/ /\ code[k].indent = code[i].indent
                                 /\ Header(k, DOMAIN matching)
                IN  m.st = "ok" \/ (m.st = "error" /\ m.err.type = "SyntaxError")
                    => /\ m.w.indent = 0
                       /\ \A i \in 1..Len(code) : code[i].indent >= 0
                       /\ \A i \in 1..Len(code) :
                             Header(i, DOMAIN matching) =>
                                 /\ code[i].indent >= 1
                                 /\ \E j \in 1..(i - 1) : Owns(j, i)

\* the code of page.html has been generated: it holds the else header of
\* the while block of the included inc.txt, after the elif header of an if
\* block inside a try block and before the else header of a for block
\* inside an apply block
C17_Witness ==
    \E t \in Threads :
        /\ stack[t] # <<>>
        /\ Top(t).phase = "create"
        /\ Top(t).name = "page.html"
        /\ \E m \in {Construction(Top(t))} :
               /\ m.st = "ok"
               /\ m.w.indent = 0
               /\ \E i, j, k \in 1..Len(m.w.lines) :
                      /\ i < j
                      /\ j < k
                      /\ m.w.lines[i].code = "%s:"
                      /\ m.w.lines[i].op = "elif"
                      /\ m.w.lines[i].indent = 2
                      /\ m.w.lines[j].code = "%s:"
                      /\ m.w.lines[j].op = "else"
                      /\ m.w.lines[j].tmpl = "inc.txt"
                      /\ m.w.lines[j].indent = 1
                      /\ m.w.lines[k].code = "%s:"
                      /\ m.w.lines[k].op = "else"
                      /\ m.w.lines[k].tmpl = "page.html"
                      /\ m.w.lines[k].indent = 2

(***************************************************************************)
(* C18: break and continue in the code of an inheritance chain             *)
(***************************************************************************)
\* C18 as stated: in the code generated for a template that extends a
\* parent, where every template of the chain parses, each break and each
\* continue statement stands in the body of a for or while header of the
\* same generated function: a header before it at a lower indent, with
\* only deeper lines between the two (so no function header between).
C18_BreakEnclosedByLoop ==
    \A t \in Threads :
        /\ stack[t] # <<>>
        /\ Top(t).phase = "create"
        /\ Top(t).kind = "load"
        /\ Top(t).name \in DOMAIN dict
        /\ \E k \in 1..Len(dict[Top(t).name]) :
               dict[Top(t).name][k].op = "extends"
        => \A m \in {Construction(Top(t))} :
               LET code == m.w.lines
                   Encloses(j, i) ==
                       /\ code[j].code = "%s:"
                       /\ code[j].op \in {"for", "while"}
                       /\ \A k \in (j + 1)..i :
                             code[k].indent > code[j].indent
               IN  m.st = "ok" \/ (m.st = "error" /\ m.err.type = "SyntaxError")
                   => \A i \in 1..Len(code) :
                          code[i].code = "%s"
                          /\ code[i].op \in {"break", "continue"}
                          => \E j \in 1..(i - 1) : Encloses(j, i)

Spec == Init /\ [][Next]_vars

ParseSpec == ParseInit /\ [][ParseNext]_vars

GenSpec == GenInit /\ [][Next]_vars

====
